---- MODULE Spec2Model ----
(***************************************************************************)
(* A model of @lexstyle/llm-client (client.ts, types.ts): the provider     *)
(* registry, the option resolver resolveLlm, the router callLLM and the    *)
(* two request adapters callAnthropic and callOpenAICompatible.            *)
(*                                                                         *)
(* JavaScript values are records [t, v]: t is the result of typeof (with   *)
(* "undefined" for an absent field) and v the value written as a string.   *)
(* Strings whose characters matter (the Anthropic base URL) are sequences  *)
(* of one-character strings.  A message built by a template literal is the *)
(* sequence of its pieces; the backquote of the source texts is written   *)
(* as an apostrophe.                                                       *)
(***************************************************************************)
EXTENDS Integers, Sequences, FiniteSets, TLC

VARIABLES
    options,      \* resolveLlm: the LlmOptions record passed in
    packageName,  \* resolveLlm: the calling package's name
    resolved,     \* resolveLlm: what the call returned or threw
    lookupArg,    \* getProviderConfig: the string passed in
    lookup,       \* getProviderConfig: what the call returned or threw
    messages,     \* callLLM: the conversation passed in
    provider,     \* callLLM: the provider argument
    baseURL,      \* callLLM: the baseURL argument
    request,      \* callLLM: the request the chosen adapter sends
    urlArg,       \* callAnthropic: the baseURL argument, as characters
    requestURL,   \* callAnthropic: the URL the request is sent to
    response,     \* callAnthropic: the HTTP response fetch resolved with
    outcome,      \* callAnthropic: what the call returned or threw
    caller,       \* the adapter the resolved caller's provider routes to
    pc,           \* per invocation: idle, sending, awaiting or settled
    sent,         \* per invocation: HTTP requests issued so far
    retriesLeft,  \* per invocation: re-sends the OpenAI client still allows
    result,       \* per invocation: how the promise settled
    invocations   \* per invocation slot: invocations started so far

resolveVars == <<options, packageName, resolved, lookupArg, lookup>>

routeVars == <<messages, provider, baseURL, request>>

urlVars == <<urlArg, requestURL>>

responseVars == <<response, outcome>>

invokeVars == <<caller, pc, sent, retriesLeft, result, invocations>>

vars == <<resolveVars, routeVars, urlVars, responseVars, invokeVars>>

----------------------------------------------------------------------------
(* JavaScript values *)

Undefined == [t |-> "undefined", v |-> ""]

Str(s) == [t |-> "string", v |-> s]

Num(s) == [t |-> "number", v |-> s]

Bool(s) == [t |-> "boolean", v |-> s]

Fn(i) == [t |-> "function", v |-> ToString(i)]

\* ToBoolean: what 'if (x)' and '!x' test
Truthy(x) ==
    CASE x.t = "undefined" -> FALSE
      [] x.t = "string"    -> x.v # ""
      [] x.t = "number"    -> x.v # "0"
      [] x.t = "boolean"   -> x.v = "true"
      [] OTHER             -> TRUE

\* a ?? b
Nullish(a, b) == IF a.t = "undefined" THEN b ELSE a

\* Array.prototype.join over a sequence of strings, as a sequence of pieces
RECURSIVE Join(_, _)
Join(keys, sep) ==
    IF Len(keys) = 0 THEN <<>>
    ELSE IF Len(keys) = 1 THEN <<keys[1]>>
    ELSE <<keys[1], sep>> \o Join(Tail(keys), sep)

----------------------------------------------------------------------------
(* Provider registry *)

\* Object.keys(PROVIDER_CONFIGS): own string keys in declaration order
PROVIDER_KEYS ==
    <<"openai", "anthropic", "gemini", "groq", "together",
      "mistral", "openrouter", "xai", "deepseek">>

Provider == {PROVIDER_KEYS[i] : i \in 1..Len(PROVIDER_KEYS)}

PROVIDER_CONFIGS ==
    [p \in Provider |->
        CASE p = "openai"     -> [baseURL |-> "https://api.openai.com/v1", defaultModel |-> "gpt-4o-mini"]
          [] p = "anthropic"  -> [baseURL |-> "https://api.anthropic.com", defaultModel |-> "claude-haiku-4-5-20251001"]
          [] p = "gemini"     -> [baseURL |-> "https://generativelanguage.googleapis.com/v1beta/openai", defaultModel |-> "gemini-2.0-flash"]
          [] p = "groq"       -> [baseURL |-> "https://api.groq.com/openai/v1", defaultModel |-> "llama-3.3-70b-versatile"]
          [] p = "together"   -> [baseURL |-> "https://api.together.xyz/v1", defaultModel |-> "meta-llama/Meta-Llama-3.1-8B-Instruct-Turbo"]
          [] p = "mistral"    -> [baseURL |-> "https://api.mistral.ai/v1", defaultModel |-> "mistral-small-latest"]
          [] p = "openrouter" -> [baseURL |-> "https://openrouter.ai/api/v1", defaultModel |-> ""]
          [] p = "xai"        -> [baseURL |-> "https://api.x.ai/v1", defaultModel |-> "grok-3-mini-fast"]
          [] p = "deepseek"   -> [baseURL |-> "https://api.deepseek.com", defaultModel |-> "deepseek-chat"]]

\* PROVIDER_CONFIGS is an object literal, so its prototype is Object.prototype:
\* these names are properties of it without being own keys.
ObjectPrototypeKeys ==
    {"constructor", "toString", "toLocaleString", "valueOf", "hasOwnProperty",
     "isPrototypeOf", "propertyIsEnumerable", "__proto__",
     "__defineGetter__", "__defineSetter__", "__lookupGetter__", "__lookupSetter__"}

\* 'key in PROVIDER_CONFIGS': own keys and the prototype chain
HasProperty(key) == key \in Provider \/ key \in ObjectPrototypeKeys

\* PROVIDER_CONFIGS[key], as the fields the callers read from it.  A member
\* inherited from Object.prototype has neither baseURL nor defaultModel.
GetProperty(key) ==
    IF key \in Provider
    THEN [own |-> TRUE, baseURL |-> Str(PROVIDER_CONFIGS[key].baseURL),
          defaultModel |-> Str(PROVIDER_CONFIGS[key].defaultModel)]
    ELSE [own |-> FALSE, baseURL |-> Undefined, defaultModel |-> Undefined]

NoConfig == [own |-> FALSE, baseURL |-> Undefined, defaultModel |-> Undefined]

UnknownProviderMessage(prov) ==
    <<"Unknown provider \"", prov, "\". Valid providers: ">>
        \o Join(PROVIDER_KEYS, ", ")

getProviderConfig(prov) ==
    IF ~HasProperty(prov)
    THEN [kind |-> "throw", config |-> NoConfig,
          message |-> UnknownProviderMessage(prov)]
    ELSE [kind |-> "return", config |-> GetProperty(prov), message |-> <<>>]

----------------------------------------------------------------------------
(* Option resolver *)

NoClosure ==
    [apiKey |-> Undefined, model |-> Undefined,
     provider |-> Undefined, baseURL |-> Undefined]

Pending == [kind |-> "pending", fn |-> Undefined, closure |-> NoClosure, message |-> <<>>]

Throw(msg) == [kind |-> "throw", fn |-> Undefined, closure |-> NoClosure, message |-> msg]

\* return options.llm: the function value itself
ReturnFn(f) == [kind |-> "return", fn |-> f, closure |-> NoClosure, message |-> <<>>]

\* return (messages) => callLLM(messages, apiKey, model, provider, baseURL)
ReturnClosure(apiKey, model, prov, url) ==
    [kind |-> "return", fn |-> Undefined,
     closure |-> [apiKey |-> apiKey, model |-> model,
                  provider |-> prov, baseURL |-> url],
     message |-> <<>>]

LlmMustBeFunction == <<"'llm' option must be a function">>

\* Mutant of RequiresModel: the message does not start with the caller's name
RequiresModel_Anonymous(pkg) ==
    <<"This package", " requires 'model' when using 'apiKey' (or use a 'provider' with a default model)">>

RequiresModel(pkg) ==
    <<pkg, " requires 'model' when using 'apiKey' (or use a 'provider' with a default model)">>

RequiresEither(pkg) ==
    <<pkg, " requires either 'apiKey' + 'model', 'apiKey' + 'provider', or 'llm' option">>

\* Mutant of LlmBranch: the typeof check is left out
LlmBranch_Unchecked(opts) == ReturnFn(opts.llm)

\* The body of 'if (options.llm) { ... }'
LlmBranch(opts) ==
    IF opts.llm.t # "function"
    THEN Throw(LlmMustBeFunction)
    ELSE ReturnFn(opts.llm)

\* Mutant of EffectiveModel: the provider's default model is not consulted
EffectiveModel_NoDefault(opts, providerConfig) == opts.model

\* options.model ?? providerConfig?.defaultModel
EffectiveModel(opts, providerConfig) ==
    Nullish(opts.model, providerConfig.defaultModel)

\* The body of 'if (options.apiKey) { ... }'
ApiKeyBranch(opts, pkg) ==
    LET found == IF Truthy(opts.provider)
                 THEN getProviderConfig(opts.provider.v)
                 ELSE [kind |-> "return", config |-> NoConfig, message |-> <<>>]
    IN  IF found.kind = "throw"
        THEN Throw(found.message)
        ELSE LET model == EffectiveModel(opts, found.config)
             IN  IF ~Truthy(model)
                 THEN Throw(RequiresModel(pkg))
                 ELSE ReturnClosure(opts.apiKey, model, opts.provider, opts.baseURL)

\* Mutant of resolveLlm: the provider is validated before 'llm' is looked at
resolveLlm_ProviderFirst(opts, pkg) ==
    IF Truthy(opts.provider) /\ getProviderConfig(opts.provider.v).kind = "throw"
    THEN Throw(getProviderConfig(opts.provider.v).message)
    ELSE IF Truthy(opts.llm) THEN LlmBranch(opts)
    ELSE IF Truthy(opts.apiKey) THEN ApiKeyBranch(opts, pkg)
    ELSE Throw(RequiresEither(pkg))

resolveLlm(opts, pkg) ==
    IF Truthy(opts.llm) THEN LlmBranch(opts)
    ELSE IF Truthy(opts.apiKey) THEN ApiKeyBranch(opts, pkg)
    ELSE Throw(RequiresEither(pkg))

----------------------------------------------------------------------------
(* Request adapters and router *)

Role == {"system", "user", "assistant"}

\* messages.find((m) => m.role === "system"): the index of the first match,
\* 0 when there is none
RECURSIVE FindSystem(_, _)
FindSystem(msgs, i) ==
    IF i > Len(msgs) THEN 0
    ELSE IF msgs[i].role = "system" THEN i
    ELSE FindSystem(msgs, i + 1)

\* Mutant of systemMsg: the last system message is taken
systemMsg_Last(msgs) ==
    IF \E i \in 1..Len(msgs) : msgs[i].role = "system"
    THEN CHOOSE i \in 1..Len(msgs) :
            /\ msgs[i].role = "system"
            /\ \A j \in (i + 1)..Len(msgs) : msgs[j].role # "system"
    ELSE 0

systemMsg(msgs) == FindSystem(msgs, 1)

IsNotSystem(m) == m.role # "system"

\* messages.filter((m) => m.role !== "system")
nonSystemMsgs(msgs) == SelectSeq(msgs, IsNotSystem)

\* The request callAnthropic sends: the baseURL it was given and the body
\* { model, max_tokens: 4096, messages, system? }
callAnthropic(msgs, apiKey, model, url) ==
    LET k == systemMsg(msgs)
    IN  [adapter |-> "anthropic",
         baseURL |-> url,
         endpoint |-> Undefined,
         apiKey |-> apiKey,
         model |-> model,
         messages |-> [i \in 1..Len(nonSystemMsgs(msgs)) |->
                          [role |-> nonSystemMsgs(msgs)[i].role,
                           content |-> nonSystemMsgs(msgs)[i].content]],
         hasSystem |-> k # 0,
         system |-> IF k # 0 THEN msgs[k].content ELSE ""]

\* The base URL of a client built by new OpenAI({ apiKey }) with no baseURL
OpenAIDefaultBaseURL == Str("https://api.openai.com/v1")

\* new OpenAI({ apiKey, ...(baseURL ? { baseURL } : {}) }): where the client
\* sends its requests
ClientBaseURL(url) == IF Truthy(url) THEN url ELSE OpenAIDefaultBaseURL

\* The request callOpenAICompatible sends: { model, messages, temperature: 0 }
\* to the client's base URL
callOpenAICompatible(msgs, apiKey, model, url) ==
    [adapter |-> "openai",
     baseURL |-> url,
     endpoint |-> ClientBaseURL(url),
     apiKey |-> apiKey,
     model |-> model,
     messages |-> msgs,
     hasSystem |-> FALSE,
     system |-> ""]

\* baseURL ?? (provider ? PROVIDER_CONFIGS[provider].baseURL : undefined)
resolvedBaseURL(prov, url) ==
    Nullish(url, IF Truthy(prov) THEN GetProperty(prov.v).baseURL ELSE Undefined)

callLLM(msgs, apiKey, model, prov, url) ==
    IF prov = Str("anthropic")
    THEN callAnthropic(msgs, apiKey, model, url)
    ELSE callOpenAICompatible(msgs, apiKey, model, resolvedBaseURL(prov, url))

----------------------------------------------------------------------------
(* Anthropic request URL, character by character *)

NoChars == [t |-> "undefined", v |-> <<>>]

Chars(cs) == [t |-> "string", v |-> cs]

\* PROVIDER_CONFIGS.anthropic.baseURL, "https://api.anthropic.com"
AnthropicBaseURL ==
    <<"h", "t", "t", "p", "s", ":", "/", "/", "a", "p", "i", ".",
      "a", "n", "t", "h", "r", "o", "p", "i", "c", ".", "c", "o", "m">>

\* .replace(/\/+$/, ""): the whole trailing run of slashes is removed
RECURSIVE StripTrailingSlashes(_)
StripTrailingSlashes(cs) ==
    IF Len(cs) > 0 /\ cs[Len(cs)] = "/"
    THEN StripTrailingSlashes(SubSeq(cs, 1, Len(cs) - 1))
    ELSE cs

\* Mutant of StripVersionSuffix: the i flag is left out
StripVersionSuffix_CaseSensitive(cs) ==
    IF /\ Len(cs) >= 3
       /\ cs[Len(cs) - 2] = "/"
       /\ cs[Len(cs) - 1] = "v"
       /\ cs[Len(cs)] = "1"
    THEN SubSeq(cs, 1, Len(cs) - 3)
    ELSE cs

\* .replace(/\/v1$/i, ""): one trailing "/v1", in either letter case
StripVersionSuffix(cs) ==
    IF /\ Len(cs) >= 3
       /\ cs[Len(cs) - 2] = "/"
       /\ cs[Len(cs) - 1] \in {"v", "V"}
       /\ cs[Len(cs)] = "1"
    THEN SubSeq(cs, 1, Len(cs) - 3)
    ELSE cs

\* (baseURL ?? PROVIDER_CONFIGS.anthropic.baseURL).replace(...).replace(...),
\* then the template ${resolvedBaseURL}/v1/messages
AnthropicURL(url) ==
    LET supplied == IF url.t = "undefined" THEN AnthropicBaseURL ELSE url.v
    IN  StripVersionSuffix(StripTrailingSlashes(supplied))
            \o <<"/", "v", "1", "/", "m", "e", "s", "s", "a", "g", "e", "s">>

----------------------------------------------------------------------------
(* Anthropic response handling *)

\* res.ok: the status is in the range 200-299
HttpOk(status) == status \in {"200", "201"}

\* data.content?.find((b) => b.type === "text"): the index of the first
\* match, 0 when content is missing or holds no such block
RECURSIVE FindText(_, _)
FindText(content, i) ==
    IF i > Len(content) THEN 0
    ELSE IF content[i].type = "text" THEN i
    ELSE FindText(content, i + 1)

\* Mutant of textBlock: the last block of type text is taken
textBlock_Last(res) ==
    IF res.hasContent /\ \E i \in 1..Len(res.content) : res.content[i].type = "text"
    THEN CHOOSE i \in 1..Len(res.content) :
            /\ res.content[i].type = "text"
            /\ \A j \in (i + 1)..Len(res.content) : res.content[j].type # "text"
    ELSE 0

textBlock(res) == IF res.hasContent THEN FindText(res.content, 1) ELSE 0

Settled(kind, value, message) == [kind |-> kind, value |-> value, message |-> message]

\* Lines 68-81: the outcome of callAnthropic for the response res
AnthropicOutcome(res) ==
    IF ~HttpOk(res.status)
    THEN Settled("throw", "", <<"Anthropic API error (", res.status, "): ", res.text>>)
    ELSE IF ~res.json
    THEN Settled("throw", "", <<"SyntaxError">>)
    ELSE LET k == textBlock(res)
         IN  IF k = 0 \/ ~Truthy(res.content[k].text)
             THEN Settled("throw", "", <<"Anthropic returned an empty response">>)
             ELSE Settled("return", res.content[k].text.v, <<>>)

----------------------------------------------------------------------------
(* Invocations of the caller resolveLlm returns for an apiKey configuration *)

\* new OpenAI({ apiKey, baseURL }) sets no maxRetries: the client keeps the
\* openai package's default and re-sends a failed request up to 2 times
DEFAULT_MAX_RETRIES == 2

\* What the provider's server (or the network) answers to one request
Answers == {"network_error", "400", "429", "500", "200_text", "200_empty"}

\* The failures the OpenAI client re-sends on: connection errors and the
\* statuses 408, 409, 429 and 5xx
ClientRetries(answer) == answer \in {"network_error", "429", "500"}

\* How a call settles on an answer it does not retry
SettleAs(answer) == IF answer = "200_text" THEN "resolved" ELSE "rejected"

----------------------------------------------------------------------------
(* The parts of the state a specification leaves untouched *)

NoLookup == [kind |-> "pending", config |-> NoConfig, message |-> <<>>]

NoRequest ==
    [adapter |-> "none", baseURL |-> Undefined, endpoint |-> Undefined,
     apiKey |-> Undefined, model |-> Undefined, messages |-> <<>>,
     hasSystem |-> FALSE, system |-> ""]

ResolveIdle ==
    /\ options = [llm |-> Undefined, apiKey |-> Undefined, provider |-> Undefined,
                  model |-> Undefined, baseURL |-> Undefined]
    /\ packageName = ""
    /\ resolved = Pending
    /\ lookupArg = ""
    /\ lookup = NoLookup

RouteIdle ==
    /\ messages = <<>>
    /\ provider = Undefined
    /\ baseURL = Undefined
    /\ request = NoRequest

UrlIdle ==
    /\ urlArg = NoChars
    /\ requestURL = NoChars

NoResponse ==
    [status |-> "", text |-> "", json |-> FALSE, hasContent |-> FALSE, content |-> <<>>]

ResponseIdle ==
    /\ response = NoResponse
    /\ outcome = Settled("pending", "", <<>>)

InvokeIdle ==
    /\ caller = "none"
    /\ pc = <<>>
    /\ sent = <<>>
    /\ retriesLeft = <<>>
    /\ result = <<>>
    /\ invocations = <<>>

----------------------------------------------------------------------------
(* Inputs of the resolver specification *)

NumFns == 2

LlmValues ==
    {Undefined, Str("not a function"), Str(""), Num("0"), Num("1"), Bool("false")}
        \cup {Fn(i) : i \in 1..NumFns}

ApiKeyValues == {Undefined, Str(""), Str("sk-test")}

ProviderStrings == Provider \cup {"invalid", "constructor", ""}

ProviderValues == {Undefined} \cup {Str(p) : p \in ProviderStrings}

ModelValues == {Undefined, Str(""), Str("gpt-4o")}

BaseURLValues == {Undefined, Str("https://x.example.com/v1")}

PackageNames == {"mypkg", "testpkg"}

LlmOptions ==
    [llm : LlmValues, apiKey : ApiKeyValues, provider : ProviderValues,
     model : ModelValues, baseURL : BaseURLValues]

LookupStrings == ProviderStrings \cup {"bad", "toString"}

InitResolve ==
    /\ RouteIdle
    /\ UrlIdle
    /\ ResponseIdle
    /\ InvokeIdle
    /\ options \in LlmOptions
    /\ packageName \in PackageNames
    /\ resolved = Pending
    /\ lookupArg \in LookupStrings
    /\ lookup = NoLookup

\* resolveLlm(options, packageName)
ResolveLlm ==
    /\ resolved.kind = "pending"
    /\ resolved' = resolveLlm(options, packageName)
    /\ UNCHANGED <<options, packageName, lookupArg, lookup, routeVars, urlVars, responseVars, invokeVars>>

\* getProviderConfig(lookupArg)
GetProviderConfig ==
    /\ lookup.kind = "pending"
    /\ lookup' = getProviderConfig(lookupArg)
    /\ UNCHANGED <<options, packageName, resolved, lookupArg, routeVars, urlVars, responseVars, invokeVars>>

NextResolve == ResolveLlm \/ GetProviderConfig

SpecResolve == InitResolve /\ [][NextResolve]_vars

----------------------------------------------------------------------------
(* Inputs of the router specification *)

MaxMsgs == 3

Contents == {"", "S", "U"}

Message == [role : Role, content : Contents]

MessageSeqs == UNION {[1..n -> Message] : n \in 0..MaxMsgs}

RouteProviders == {Undefined} \cup {Str(p) : p \in Provider}

RouteBaseURLs == {Undefined, Str(""), Str("https://x.example.com/v1")}

InitRoute ==
    /\ ResolveIdle
    /\ UrlIdle
    /\ ResponseIdle
    /\ InvokeIdle
    /\ messages \in MessageSeqs
    /\ provider \in RouteProviders
    /\ baseURL \in RouteBaseURLs
    /\ request = NoRequest

\* callLLM(messages, apiKey, model, provider, baseURL), up to the request sent
CallLLM ==
    /\ request.adapter = "none"
    /\ request' = callLLM(messages, Str("sk-test"), Str("m"), provider, baseURL)
    /\ UNCHANGED <<messages, provider, baseURL, resolveVars, urlVars, responseVars, invokeVars>>

NextRoute == CallLLM

SpecRoute == InitRoute /\ [][NextRoute]_vars

----------------------------------------------------------------------------
(* Inputs of the URL specification *)

MaxUrlLen == 6

UrlAlphabet == {"/", "v", "V", "1", "a"}

UrlStrings == UNION {[1..n -> UrlAlphabet] : n \in 0..MaxUrlLen}

InitUrl ==
    /\ ResolveIdle
    /\ RouteIdle
    /\ ResponseIdle
    /\ InvokeIdle
    /\ urlArg \in {NoChars} \cup {Chars(cs) : cs \in UrlStrings}
    /\ requestURL = NoChars

\* callAnthropic(messages, apiKey, model, urlArg), up to the URL it fetches
CallAnthropic ==
    /\ requestURL = NoChars
    /\ requestURL' = Chars(AnthropicURL(urlArg))
    /\ UNCHANGED <<urlArg, resolveVars, routeVars, responseVars, invokeVars>>

NextUrl == CallAnthropic

SpecUrl == InitUrl /\ [][NextUrl]_vars

----------------------------------------------------------------------------
(* Inputs of the response specification *)

MaxBlocks == 2

Block == [type : {"text", "tool_use"}, text : {Undefined, Str(""), Str("hi"), Str("yo")}]

BlockSeqs == UNION {[1..n -> Block] : n \in 0..MaxBlocks}

\* Unsuccessful responses, successful ones whose body is not JSON, successful
\* JSON without a content field, and successful JSON with a content list
Responses ==
    [status : {"400", "500"}, text : {"", "overloaded"}, json : {FALSE},
     hasContent : {FALSE}, content : {<<>>}]
    \cup [status : {"200"}, text : {""}, json : BOOLEAN,
          hasContent : {FALSE}, content : {<<>>}]
    \cup [status : {"200", "201"}, text : {""}, json : {TRUE},
          hasContent : {TRUE}, content : BlockSeqs]

InitResponse ==
    /\ ResolveIdle
    /\ RouteIdle
    /\ UrlIdle
    /\ InvokeIdle
    /\ response \in Responses
    /\ outcome = Settled("pending", "", <<>>)

\* callAnthropic from the point fetch has resolved with response
HandleResponse ==
    /\ outcome.kind = "pending"
    /\ outcome' = AnthropicOutcome(response)
    /\ UNCHANGED <<response, resolveVars, routeVars, urlVars, invokeVars>>

NextResponse == HandleResponse

SpecResponse == InitResponse /\ [][NextResponse]_vars

----------------------------------------------------------------------------
(* Concurrent invocations of one resolved caller *)

MaxCalls == 2

MaxInvocations == 2

Calls == 1..MaxCalls

InitInvoke ==
    /\ ResolveIdle
    /\ RouteIdle
    /\ UrlIdle
    /\ ResponseIdle
    /\ caller \in {"anthropic", "openai"}
    /\ pc = [i \in Calls |-> "idle"]
    /\ sent = [i \in Calls |-> 0]
    /\ retriesLeft = [i \in Calls |-> 0]
    /\ result = [i \in Calls |-> "none"]
    /\ invocations = [i \in Calls |-> 0]

\* The application calls the resolved caller: callLLM routes to the adapter
Invoke(i) ==
    /\ pc[i] \in {"idle", "settled"}
    /\ invocations[i] < MaxInvocations
    /\ pc' = [pc EXCEPT ![i] = "sending"]
    /\ sent' = [sent EXCEPT ![i] = 0]
    /\ retriesLeft' = [retriesLeft EXCEPT ![i] =
                          IF caller = "openai" THEN DEFAULT_MAX_RETRIES ELSE 0]
    /\ result' = [result EXCEPT ![i] = "none"]
    /\ invocations' = [invocations EXCEPT ![i] = @ + 1]
    /\ UNCHANGED <<caller, resolveVars, routeVars, urlVars, responseVars>>

\* fetch(url, ...) in callAnthropic; the HTTP request of
\* client.chat.completions.create(...) in callOpenAICompatible
SendRequest(i) ==
    /\ pc[i] = "sending"
    /\ pc' = [pc EXCEPT ![i] = "awaiting"]
    /\ sent' = [sent EXCEPT ![i] = @ + 1]
    /\ UNCHANGED <<caller, retriesLeft, result, invocations,
                   resolveVars, routeVars, urlVars, responseVars>>

\* callAnthropic: whatever fetch yields settles the call (lines 58-81)
AnthropicAnswer(i) ==
    /\ pc[i] = "awaiting"
    /\ caller = "anthropic"
    /\ \E answer \in Answers :
          result' = [result EXCEPT ![i] = SettleAs(answer)]
    /\ pc' = [pc EXCEPT ![i] = "settled"]
    /\ UNCHANGED <<caller, sent, retriesLeft, invocations,
                   resolveVars, routeVars, urlVars, responseVars>>

\* callOpenAICompatible: create(...) re-sends while the client has retries
\* left for this failure, and settles the call otherwise (lines 93-108)
OpenAIAnswer(i) ==
    /\ pc[i] = "awaiting"
    /\ caller = "openai"
    /\ \E answer \in Answers :
          IF ClientRetries(answer) /\ retriesLeft[i] > 0
          THEN /\ pc' = [pc EXCEPT ![i] = "sending"]
               /\ retriesLeft' = [retriesLeft EXCEPT ![i] = @ - 1]
               /\ UNCHANGED result
          ELSE /\ pc' = [pc EXCEPT ![i] = "settled"]
               /\ result' = [result EXCEPT ![i] = SettleAs(answer)]
               /\ UNCHANGED retriesLeft
    /\ UNCHANGED <<caller, sent, invocations,
                   resolveVars, routeVars, urlVars, responseVars>>

NextInvoke ==
    \E i \in Calls :
        \/ Invoke(i)
        \/ SendRequest(i)
        \/ AnthropicAnswer(i)
        \/ OpenAIAnswer(i)

SpecInvoke == InitInvoke /\ [][NextInvoke]_vars

----------------------------------------------------------------------------
(* Claims about the resolver and the registry, under SpecResolve *)

Resolved == resolved.kind # "pending"

\* C1: when options.llm is a function, resolveLlm returns that very function
\* value, whatever apiKey, model, baseURL and provider are (an unknown
\* provider included: no registry lookup happens on this branch).
C1_LlmReturnedAsIs ==
    (Resolved /\ options.llm.t = "function")
        => /\ resolved.kind = "return"
           /\ resolved.fn = options.llm
           /\ resolved.closure = NoClosure

C1_Witness ==
    /\ resolved.kind = "return"
    /\ options.llm = Fn(2)
    /\ resolved.fn = Fn(2)
    /\ options.provider = Str("invalid")
    /\ options.apiKey = Str("sk-test")

\* C2 as stated: whenever llm is set to any value that is not a function,
\* falsy values included, resolveLlm throws "llm option must be a function".
C2_AnyNonFunctionLlmRejected ==
    (Resolved /\ options.llm.t \notin {"undefined", "function"})
        => resolved = Throw(LlmMustBeFunction)

\* C2 amended: whenever llm is a truthy value that is not a function,
\* resolveLlm throws "llm option must be a function", whatever apiKey, model
\* and provider are.
C2_TruthyNonFunctionLlmRejected ==
    (Resolved /\ options.llm.t # "function" /\ Truthy(options.llm))
        => resolved = Throw(LlmMustBeFunction)

C2_Witness ==
    /\ resolved = Throw(LlmMustBeFunction)
    /\ options.llm = Str("not a function")
    /\ options.apiKey = Str("sk-test")
    /\ options.model = Str("gpt-4o")
    /\ options.provider = Str("openai")

\* The case C3 is about: no llm, a set apiKey, provider absent or registered
C3_Case ==
    /\ Resolved
    /\ options.llm = Undefined
    /\ options.apiKey.t = "string" /\ options.apiKey.v # ""
    /\ \/ options.provider = Undefined
       \/ options.provider.t = "string" /\ options.provider.v \in Provider

C3_NoDefault ==
    \/ options.provider = Undefined
    \/ PROVIDER_CONFIGS[options.provider.v].defaultModel = ""

C3_ModelUsed ==
    IF options.model # Undefined
    THEN options.model
    ELSE Str(PROVIDER_CONFIGS[options.provider.v].defaultModel)

\* C3 as stated: in that case resolveLlm throws "<pkg> requires model" exactly
\* when no options.model is given and there is no provider or its default
\* model is empty; otherwise it returns a caller using options.model if given,
\* else the provider's default model.
C3_RequiresModelExactlyWhenNoneGiven ==
    C3_Case =>
        IF options.model = Undefined /\ C3_NoDefault
        THEN resolved = Throw(RequiresModel(packageName))
        ELSE /\ resolved.kind = "return"
             /\ resolved.closure.model = C3_ModelUsed

\* C3 amended: in that case resolveLlm throws "<pkg> requires model" exactly
\* when options.model is the empty string, or no options.model is given and
\* there is no provider or its default model is empty; otherwise it returns a
\* caller using options.model if given, else the provider's default model.
C3_RequiresModelWhenNoneOrEmpty ==
    C3_Case =>
        IF options.model = Str("") \/ (options.model = Undefined /\ C3_NoDefault)
        THEN resolved = Throw(RequiresModel(packageName))
        ELSE /\ resolved.kind = "return"
             /\ resolved.closure.model = C3_ModelUsed

C3_Witness ==
    /\ C3_Case
    /\ options.provider = Str("groq")
    /\ options.model = Undefined
    /\ resolved.kind = "return"
    /\ resolved.closure.model = Str("llama-3.3-70b-versatile")

C4_ExpectedMessage(s) ==
    <<"Unknown provider \"", s, "\". Valid providers: ",
      "openai", ", ", "anthropic", ", ", "gemini", ", ", "groq", ", ",
      "together", ", ", "mistral", ", ", "openrouter", ", ", "xai", ", ",
      "deepseek">>

\* C4: getProviderConfig returns the registered pair for each of the 9
\* identifiers and, for every other string (names of inherited object
\* properties and the empty string included), throws 'Unknown provider "s".
\* Valid providers: ' followed by the 9 identifiers in declaration order.
C4_TotalPartition ==
    (lookup.kind # "pending") =>
        IF lookupArg \in {"openai", "anthropic", "gemini", "groq", "together",
                          "mistral", "openrouter", "xai", "deepseek"}
        THEN /\ lookup.kind = "return"
             /\ lookup.config.baseURL = Str(PROVIDER_CONFIGS[lookupArg].baseURL)
             /\ lookup.config.defaultModel = Str(PROVIDER_CONFIGS[lookupArg].defaultModel)
        ELSE /\ lookup.kind = "throw"
             /\ lookup.message = C4_ExpectedMessage(lookupArg)

\* The errors resolveLlm raises itself (not the registry's Unknown provider)
C5_InvalidConfiguration ==
    /\ resolved.kind = "throw"
    /\ resolved.message[1] # "Unknown provider \""

\* C5 as stated: every InvalidConfiguration message of resolveLlm contains
\* the caller's name, for all three causes.
C5_MessageNamesCaller ==
    C5_InvalidConfiguration =>
        \E i \in 1..Len(resolved.message) : resolved.message[i] = packageName

\* C5 amended: the messages for 'apiKey without a resolvable model' and for
\* 'neither llm nor apiKey' contain the caller's name; the message for an llm
\* that is not a function is the fixed text "llm option must be a function",
\* which does not.
C5_MessageNamesCallerUnlessLlm ==
    C5_InvalidConfiguration =>
        IF Truthy(options.llm)
        THEN /\ Len(resolved.message) = 1
             /\ resolved.message[1] = "'llm' option must be a function"
        ELSE \E i \in 1..Len(resolved.message) : resolved.message[i] = packageName

C5_Witness ==
    /\ C5_InvalidConfiguration
    /\ options.llm = Undefined
    /\ options.apiKey = Str("sk-test")
    /\ options.provider = Str("openrouter")
    /\ options.model = Undefined
    /\ packageName = "mypkg"
    /\ resolved.message[1] = "mypkg"

----------------------------------------------------------------------------
(* Claims about the router and the request bodies, under SpecRoute *)

\* C6: provider "anthropic" goes to the Anthropic adapter, which receives
\* baseURL as passed; every other provider (or none) goes to the
\* OpenAI-compatible adapter and the request is sent to the caller's baseURL
\* whenever one is given (an empty string included), else to the provider's
\* registry base URL when a provider is given, else to the client's OpenAI
\* default; with a provider given it never goes to the OpenAI default unless
\* that is the provider's own URL.
C6_RouteAndBaseURL ==
    (request.adapter # "none") =>
        IF provider = Str("anthropic")
        THEN /\ request.adapter = "anthropic"
             /\ request.baseURL = baseURL
        ELSE /\ request.adapter = "openai"
             /\ request.endpoint =
                   IF baseURL # Undefined THEN baseURL
                   ELSE IF provider # Undefined
                        THEN Str(PROVIDER_CONFIGS[provider.v].baseURL)
                        ELSE Str("https://api.openai.com/v1")

\* C6, its last sentence: when a provider other than openai is given, the
\* request of the OpenAI-compatible adapter is never sent to the client's
\* OpenAI default endpoint.
C6_NeverOpenAIDefault ==
    (request.adapter = "openai" /\ provider \notin {Undefined, Str("openai")})
        => request.endpoint # Str("https://api.openai.com/v1")

\* The indices of the input messages that are not system messages
C7_Kept == {i \in 1..Len(messages) : messages[i].role # "system"}

\* The k-th of them in input order
C7_Nth(k) == CHOOSE i \in C7_Kept : Cardinality({j \in C7_Kept : j <= i}) = k

\* C7: the Anthropic body's messages are exactly the non-system input
\* messages, in order, role and content unchanged; its system field is the
\* content of the first system message when there is one and is absent
\* otherwise.  The OpenAI-compatible body carries the input messages as given.
C7_Bodies ==
    /\ (request.adapter = "anthropic") =>
          /\ Len(request.messages) = Cardinality(C7_Kept)
          /\ \A k \in 1..Len(request.messages) :
                request.messages[k] = messages[C7_Nth(k)]
          /\ request.hasSystem = (\E i \in 1..Len(messages) : messages[i].role = "system")
          /\ request.hasSystem =>
                \E i \in 1..Len(messages) :
                   /\ messages[i].role = "system"
                   /\ \A j \in 1..(i - 1) : messages[j].role # "system"
                   /\ request.system = messages[i].content
    /\ (request.adapter = "openai") => request.messages = messages

C7_Witness ==
    /\ request.adapter = "anthropic"
    /\ Len(messages) = 3
    /\ messages[1] = [role |-> "system", content |-> "S"]
    /\ messages[2] = [role |-> "user", content |-> "U"]
    /\ messages[3] = [role |-> "system", content |-> ""]
    /\ request.system = "S"
    /\ request.messages = <<[role |-> "user", content |-> "U"]>>

----------------------------------------------------------------------------
(* Claim about the Anthropic request URL, under SpecUrl *)

C8_EndsWith(cs, suffix) ==
    /\ Len(cs) >= Len(suffix)
    /\ SubSeq(cs, Len(cs) - Len(suffix) + 1, Len(cs)) = suffix

C8_AllSlashes(cs) == \A i \in 1..Len(cs) : cs[i] = "/"

\* "", "/", "//", ..., "/v1", "/V1", "/v1/", "/V1/", "/v1//", ...
C8_Suffix(cs) ==
    \/ C8_AllSlashes(cs)
    \/ /\ Len(cs) >= 3
       /\ SubSeq(cs, 1, 3) \in {<<"/", "v", "1">>, <<"/", "V", "1">>}
       /\ C8_AllSlashes(SubSeq(cs, 4, Len(cs)))

C8_Messages == <<"/", "v", "1", "/", "m", "e", "s", "s", "a", "g", "e", "s">>

C8_DefaultURL ==
    <<"h", "t", "t", "p", "s", ":", "/", "/", "a", "p", "i", ".",
      "a", "n", "t", "h", "r", "o", "p", "i", "c", ".", "c", "o", "m",
      "/", "v", "1", "/", "m", "e", "s", "s", "a", "g", "e", "s">>

\* Every way of reading the supplied value as B followed by one of the
\* suffixes, for a B that Base accepts, yields B + "/v1/messages"; no value
\* yields the default URL.
C8_Normalizes(Base(_)) ==
    (requestURL # NoChars) =>
        IF urlArg = NoChars
        THEN requestURL.v = C8_DefaultURL
        ELSE \A n \in 0..Len(urlArg.v) :
                LET B == SubSeq(urlArg.v, 1, n)
                    rest == SubSeq(urlArg.v, n + 1, Len(urlArg.v))
                IN  (Base(B) /\ C8_Suffix(rest)) => requestURL.v = B \o C8_Messages

C8_BaseAsStated(B) ==
    /\ ~C8_EndsWith(B, <<"/">>)
    /\ ~C8_EndsWith(B, <<"/", "v", "1">>)

C8_BaseAnyCase(B) ==
    /\ ~C8_EndsWith(B, <<"/">>)
    /\ ~C8_EndsWith(B, <<"/", "v", "1">>)
    /\ ~C8_EndsWith(B, <<"/", "V", "1">>)

\* C8 as stated: for every B that does not end in "/" or "/v1", the supplied
\* values B, B/, B/v1, B/V1, B/v1/ (any number of trailing slashes) all give
\* the request URL B/v1/messages; no base URL gives
\* https://api.anthropic.com/v1/messages.
C8_SameEndpoint == C8_Normalizes(C8_BaseAsStated)

\* C8 amended: the same for every B that does not end in "/" nor in "/v1" in
\* either letter case ("/v1" or "/V1").
C8_SameEndpointAnyCase == C8_Normalizes(C8_BaseAnyCase)

C8_Witness ==
    /\ urlArg = Chars(<<"a", "/", "V", "1", "/", "/">>)
    /\ requestURL = Chars(<<"a">> \o C8_Messages)

----------------------------------------------------------------------------
(* Claim about invocations, under SpecInvoke *)

\* C9: every invocation of the resolved caller has issued exactly one HTTP
\* request when it settles, whatever the answer was and however the
\* invocations interleave: nothing is sent again after a failure.
C9_OneRequestPerInvocation ==
    \A i \in DOMAIN pc : (pc[i] = "settled") => (sent[i] = 1)

----------------------------------------------------------------------------
(* Claim about the Anthropic response, under SpecResponse *)

C10_Handled == outcome.kind # "pending"

C10_IsText(i) == response.hasContent /\ response.content[i].type = "text"

C10_TextBlocks == {i \in 1..Len(response.content) : C10_IsText(i)}

C10_First == CHOOSE i \in C10_TextBlocks : \A j \in C10_TextBlocks : i <= j

C10_Empty == Settled("throw", "", <<"Anthropic returned an empty response">>)

C10_NotOk ==
    (C10_Handled /\ response.status \notin {"200", "201"}) =>
        /\ outcome.kind = "throw"
        /\ outcome.message[2] = response.status
        /\ outcome.message[4] = response.text

\* C10 as stated: an unsuccessful response throws an error carrying status
\* and body; a successful one with a block of type text returns the text of
\* the first such block; EmptyResponse is thrown exactly when the successful
\* response has no block of type text.
C10_OutcomeAsStated ==
    /\ C10_NotOk
    /\ (C10_Handled /\ response.status \in {"200", "201"} /\ response.json) =>
          IF C10_TextBlocks # {}
          THEN /\ outcome.kind = "return"
               /\ Str(outcome.value) = response.content[C10_First].text
          ELSE outcome = C10_Empty
    /\ (C10_Handled /\ outcome = C10_Empty) =>
          (response.status \in {"200", "201"} /\ C10_TextBlocks = {})

\* C10 amended: an unsuccessful response throws an error carrying status and
\* body; a successful JSON response whose first block of type text has a
\* non-empty text returns that text; EmptyResponse is thrown exactly when the
\* successful JSON response has no block of type text or the first such
\* block has a missing or empty text.
C10_OutcomeFirstTextNonEmpty ==
    /\ C10_NotOk
    /\ (C10_Handled /\ response.status \in {"200", "201"} /\ response.json) =>
          IF /\ C10_TextBlocks # {}
             /\ response.content[C10_First].text \notin {Undefined, Str("")}
          THEN /\ outcome.kind = "return"
               /\ Str(outcome.value) = response.content[C10_First].text
          ELSE outcome = C10_Empty
    /\ (C10_Handled /\ outcome = C10_Empty) =>
          (response.status \in {"200", "201"} /\ response.json)

C10_Witness ==
    /\ response.status = "200"
    /\ response.hasContent
    /\ Len(response.content) = 2
    /\ response.content[1] = [type |-> "text", text |-> Str("hi")]
    /\ response.content[2] = [type |-> "text", text |-> Str("yo")]
    /\ outcome = Settled("return", "hi", <<>>)

====
